---------------------------- MODULE Spec2Model ----------------------------
(***************************************************************************)
(* Model of the tool-calling loop of the course-materials RAG chatbot:     *)
(*   backend/ai_generator.py  AIGenerator (generate_response,              *)
(*                            _extract_tool_call, _handle_tool_execution,  *)
(*                            _clean_response)                             *)
(*   backend/app.py           query_documents and the shared rag_system    *)
(* A text is a sequence of tokens: the two delimiters, white space, a free *)
(* word and JSON lexemes.  The regular expression, str.strip and           *)
(* json.loads are defined on these sequences.                              *)
(***************************************************************************)
EXTENDS Naturals, Sequences, FiniteSets, TLC

(***************************************************************************)
(* Bounds of the model.                                                    *)
(***************************************************************************)
\* segments concatenated into a completion text
MaxSegs == 4
\* tokens of free text before and after a single block
MaxFree == 1
\* requests received by the web handler
NumTurns == 2

(***************************************************************************)
(* Tokens.                                                                 *)
(***************************************************************************)
OPEN == "<tool_call>"
CLOSE == "</tool_call>"
SP == " "
NL == "\n"
WORD == "word"
LBRACE == "{"
RBRACE == "}"
COMMA == ","

\* str.strip() with no argument removes white space
Whitespace == {SP, NL}

ABSENT == "<absent>"

\* the tools the registry of rag_system holds
SEARCH_TOOL == "search_course_content"
OUTLINE_TOOL == "get_course_outline"
UNKNOWN_TOOL == "unknown_tool"

\* `"name": <string>` members of a JSON object, one token each
NameMembers ==
  { [tok |-> "\"name\": \"search_course_content\"", val |-> SEARCH_TOOL],
    [tok |-> "\"name\": \"get_course_outline\"", val |-> OUTLINE_TOOL],
    [tok |-> "\"name\": \"unknown_tool\"", val |-> UNKNOWN_TOOL] }

\* the JSON literals that stand as the value of `arguments`: whether
\* Python's ** accepts the decoded value (a dict) and the keyword arguments
\* it then passes
ArgLiterals ==
  { [lit |-> "{\"query\": \"API\"}", mapping |-> TRUE,
     kwargs |-> {<<"query", "API">>}],
    [lit |-> "{\"query\": \"API\", \"course_name\": \"MCP\"}", mapping |-> TRUE,
     kwargs |-> {<<"query", "API">>, <<"course_name", "MCP">>}],
    [lit |-> "{\"course_title\": \"MCP\"}", mapping |-> TRUE,
     kwargs |-> {<<"course_title", "MCP">>}],
    [lit |-> "{\"bogus\": \"x\"}", mapping |-> TRUE,
     kwargs |-> {<<"bogus", "x">>}],
    [lit |-> "{}", mapping |-> TRUE, kwargs |-> {}],
    [lit |-> "[1]", mapping |-> FALSE, kwargs |-> {}],
    [lit |-> "\"s\"", mapping |-> FALSE, kwargs |-> {}],
    [lit |-> "null", mapping |-> FALSE, kwargs |-> {}] }

ArgsToken(lit) == "\"arguments\": " \o lit

\* `"arguments": <value>` members of a JSON object, one token each
ArgsMembers == { [tok |-> ArgsToken(a.lit), val |-> a.lit] : a \in ArgLiterals }

\* JSON values that are not objects, one token each, with the Python type
\* json.loads gives them and their truth value
ScalarLiterals ==
  { [tok |-> "null", kind |-> "NoneType", truthy |-> FALSE],
    [tok |-> "false", kind |-> "bool", truthy |-> FALSE],
    [tok |-> "true", kind |-> "bool", truthy |-> TRUE],
    [tok |-> "0", kind |-> "int", truthy |-> FALSE],
    [tok |-> "1", kind |-> "int", truthy |-> TRUE],
    [tok |-> "\"\"", kind |-> "str", truthy |-> FALSE],
    [tok |-> "\"s\"", kind |-> "str", truthy |-> TRUE],
    [tok |-> "[]", kind |-> "list", truthy |-> FALSE],
    [tok |-> "[1]", kind |-> "list", truthy |-> TRUE] }

NameTokens == { m.tok : m \in NameMembers }
ArgsTokens == { m.tok : m \in ArgsMembers }
MemberTokens == NameTokens \cup ArgsTokens
ScalarTokens == { s.tok : s \in ScalarLiterals }

MemberValue(tok) == (CHOOSE m \in NameMembers \cup ArgsMembers : m.tok = tok).val
ScalarOf(tok) == CHOOSE s \in ScalarLiterals : s.tok = tok
ArgLiteralOf(lit) == CHOOSE a \in ArgLiterals : a.lit = lit

(***************************************************************************)
(* Python values json.loads and _extract_tool_call return.                 *)
(***************************************************************************)
PyNone == [kind |-> "None", lit |-> "", name |-> ABSENT, args |-> ABSENT]
JSONDecodeError == [kind |-> "JSONDecodeError", lit |-> "", name |-> ABSENT, args |-> ABSENT]
PyScalar(tok) == [kind |-> ScalarOf(tok).kind, lit |-> tok, name |-> ABSENT, args |-> ABSENT]
PyDict(n, a) == [kind |-> "dict", lit |-> "", name |-> n, args |-> a]

\* bool(value): an empty dict, None, 0, False, "" and [] are false
Truthy(v) ==
  CASE v.kind = "dict" -> v.name # ABSENT \/ v.args # ABSENT
    [] v.kind \in {"None", "JSONDecodeError"} -> FALSE
    [] OTHER -> ScalarOf(v.lit).truthy

Max(S) == CHOOSE x \in S : \A y \in S : y <= x
Min(S) == CHOOSE x \in S : \A y \in S : x <= y
Range(f) == { f[i] : i \in DOMAIN f }

\* str.strip(): the text without its leading and trailing white space
strip(s) ==
  LET keep == { i \in DOMAIN s : s[i] \notin Whitespace }
  IN  IF keep = {} THEN << >> ELSE SubSeq(s, Min(keep), Max(keep))

\* json.loads skips white space between lexemes
Lexemes(s) == SelectSeq(s, LAMBDA t : t \notin Whitespace)

\* the value of the last member of the object with this key, as dict
\* construction keeps the last of repeated keys
LastMember(inner, toks) ==
  LET at == { i \in DOMAIN inner : inner[i] \in toks }
  IN  IF at = {} THEN ABSENT ELSE MemberValue(inner[Max(at)])

\* json.loads(s): one scalar, or { member , member ... }; anything else
\* raises JSONDecodeError
json_loads(s) ==
  LET u == Lexemes(s)
      n == Len(u)
      inner == SubSeq(u, 2, n - 1)
      members == /\ Len(inner) % 2 = 1
                 /\ \A i \in DOMAIN inner :
                      IF i % 2 = 1 THEN inner[i] \in MemberTokens ELSE inner[i] = COMMA
  IN  IF n = 1 /\ u[1] \in ScalarTokens THEN PyScalar(u[1])
      ELSE IF n >= 2 /\ u[1] = LBRACE /\ u[n] = RBRACE /\ (n = 2 \/ members)
           THEN PyDict(LastMember(inner, NameTokens), LastMember(inner, ArgsTokens))
           ELSE JSONDecodeError

(***************************************************************************)
(* The pattern <tool_call>(.*?)</tool_call> under re.DOTALL.               *)
(***************************************************************************)
NoMatch == [found |-> FALSE, start |-> 0, end |-> 0]

\* without re.DOTALL the dot matches no line break
DotMatches_noDOTALL(tok) == tok # NL

\* re.DOTALL: the dot matches every character
DotMatches(tok) == TRUE

\* the pattern matches text[i..j]: the lazy group ends at the first closing
\* delimiter after i
MatchAt(text, i, j) ==
  /\ i < j
  /\ text[i] = OPEN
  /\ text[j] = CLOSE
  /\ \A k \in (i + 1)..(j - 1) : text[k] # CLOSE /\ DotMatches(text[k])

\* the leftmost match that starts at pos or later
SearchFrom(text, pos) ==
  LET starts == { i \in pos..Len(text) : \E j \in DOMAIN text : MatchAt(text, i, j) }
  IN  IF starts = {} THEN NoMatch
      ELSE LET i == Min(starts)
           IN  [found |-> TRUE, start |-> i,
                end |-> CHOOSE j \in DOMAIN text : MatchAt(text, i, j)]

\* the group is greedy: the match runs to the last closing delimiter
re_search_greedy(text) ==
  LET starts == { i \in DOMAIN text :
                    text[i] = OPEN /\ \E j \in DOMAIN text : j > i /\ text[j] = CLOSE }
  IN  IF starts = {} THEN NoMatch
      ELSE [found |-> TRUE, start |-> Min(starts),
            end |-> Max({ j \in DOMAIN text : text[j] = CLOSE })]

\* re.search(pattern, text, re.DOTALL)
re_search(text) == SearchFrom(text, 1)

\* match.group(1)
Group1(text, m) == SubSeq(text, m.start + 1, m.end - 1)

RECURSIVE SubFrom(_, _)
SubFrom(text, pos) ==
  LET m == SearchFrom(text, pos)
  IN  IF ~m.found THEN SubSeq(text, pos, Len(text))
      ELSE SubSeq(text, pos, m.start - 1) \o SubFrom(text, m.end + 1)

\* re.sub(pattern, '', text, flags=re.DOTALL): every match removed, left to right
re_sub(text) == SubFrom(text, 1)

\* try: json.loads(...) except json.JSONDecodeError: return None
DecodeOrNone(v) == IF v.kind = "JSONDecodeError" THEN PyNone ELSE v

\* a later block is tried when the first does not decode
RECURSIVE ExtractFrom(_, _)
ExtractFrom(text, pos) ==
  LET m == SearchFrom(text, pos)
  IN  IF ~m.found THEN PyNone
      ELSE LET v == json_loads(strip(Group1(text, m)))
           IN  IF v.kind = "JSONDecodeError" THEN ExtractFrom(text, m.end + 1) ELSE v

_extract_tool_call_any_block(text) == ExtractFrom(text, 1)

\* AIGenerator._extract_tool_call
_extract_tool_call(text) ==
  LET m == re_search(text)
  IN  IF m.found THEN DecodeOrNone(json_loads(strip(Group1(text, m)))) ELSE PyNone

\* AIGenerator._clean_response
_clean_response(text) == strip(re_sub(text))

(***************************************************************************)
(* The completion texts the model draws from.                              *)
(***************************************************************************)
SeqsUpTo(S, n) == UNION { [1..k -> S] : k \in 0..n }

RECURSIVE Concat(_)
Concat(segs) == IF segs = << >> THEN << >> ELSE Head(segs) \o Concat(Tail(segs))

\* a JSON value written on one line, or on several lines with indentation
Render(v, layout) ==
  LET members == (IF v.name = ABSENT THEN << >>
                  ELSE << (CHOOSE m \in NameMembers : m.val = v.name).tok >>)
                 \o (IF v.args = ABSENT THEN << >> ELSE << ArgsToken(v.args) >>)
      sep == IF layout = "lines" THEN << NL, SP >> ELSE << >>
      RECURSIVE Join(_)
      Join(ms) == IF Len(ms) = 0 THEN << >>
                  ELSE IF Len(ms) = 1 THEN sep \o << ms[1] >>
                  ELSE sep \o << ms[1], COMMA >> \o Join(Tail(ms))
  IN  IF v.kind = "dict"
      THEN << LBRACE >> \o Join(members) \o (IF layout = "lines" THEN << NL >> ELSE << >>)
           \o << RBRACE >>
      ELSE << v.lit >>

Layouts == {"line", "lines"}

ToolNames == {SEARCH_TOOL, OUTLINE_TOOL, UNKNOWN_TOOL}
ArgLits == { a.lit : a \in ArgLiterals }

DictValues == { PyDict(n, a) : n \in ToolNames \cup {ABSENT}, a \in ArgLits \cup {ABSENT} }
ScalarValues == { PyScalar(tok) : tok \in ScalarTokens }
JsonValues == DictValues \cup ScalarValues

\* an invocation as the system prompt asks for it: an object with a name
\* and an arguments object
WellFormed(v) ==
  /\ v.kind = "dict"
  /\ v.name # ABSENT
  /\ v.args # ABSENT
  /\ ArgLiteralOf(v.args).mapping

\* bodies that are no JSON: {invalid}, nothing, an object never closed,
\* two values, a missing comma
InvalidBodies ==
  { << LBRACE, WORD, RBRACE >>,
    << >>,
    << LBRACE, "\"name\": \"search_course_content\"" >>,
    << "1", "1" >>,
    << LBRACE, "\"name\": \"search_course_content\"", ArgsToken("{}"), RBRACE >> }

Block(body) == << OPEN >> \o body \o << CLOSE >>

GoodSearch == PyDict(SEARCH_TOOL, "{\"query\": \"API\"}")

FreeTexts == SeqsUpTo({SP, NL, WORD}, MaxFree)

\* one block, of every JSON value in both layouts and of every invalid
\* body, with free text before and after it
OneBlockTexts ==
  { pre \o Block(body) \o post :
      pre \in FreeTexts, post \in FreeTexts,
      body \in { Render(v, l) : v \in JsonValues, l \in Layouts } \cup InvalidBodies }

\* delimiters, free text and bodies in any order: several blocks, nested,
\* unclosed and unopened delimiters
Segments ==
  { << OPEN >>, << CLOSE >>, << WORD >>, << NL >>,
    Render(GoodSearch, "line"),
    Block(Render(GoodSearch, "line")), Block(<< LBRACE, WORD, RBRACE >>) }

SegmentTexts == { Concat(segs) : segs \in SeqsUpTo(Segments, MaxSegs) }

AllTexts == OneBlockTexts \cup SegmentTexts

(***************************************************************************)
(* The registry and its tools (search_tools.py: ToolManager,               *)
(* CourseSearchTool, CourseOutlineTool).                                   *)
(***************************************************************************)
RegisteredTools == {SEARCH_TOOL, OUTLINE_TOOL}

\* the parameters each tool's execute declares, and those it requires
Declared(tool) ==
  IF tool = SEARCH_TOOL THEN {"query", "course_name", "lesson_number"} ELSE {"course_title"}
Required(tool) == IF tool = SEARCH_TOOL THEN {"query"} ELSE {"course_title"}

Keys(kwargs) == { kv[1] : kv \in kwargs }

\* a source record: a mapping with a title and an optional lesson link
SourceRecord(title, link) == [type |-> "dict", title |-> title, link |-> link]

\* what a search can come to: a backend or resolution error, no document,
\* or ranked documents with their source records
SearchOutcomes ==
  { [kind |-> "error", result |-> "No course found matching 'MCP'", sources |-> << >>],
    [kind |-> "empty", result |-> "No relevant content found.", sources |-> << >>],
    [kind |-> "hits", result |-> "[MCP - Lesson 1]\nAPI endpoints", sources |-> << SourceRecord("MCP - Lesson 1", "https://example.com/mcp/1") >>],
    [kind |-> "hits", result |-> "[Python Basics - Lesson 0]\nPython\n\n[Python Basics]\nAPI",
     sources |-> << SourceRecord("Python Basics - Lesson 0", "https://example.com/py/0"),
                    SourceRecord("Python Basics", ABSENT) >>] }

OutlineResults ==
  { "No course found matching 'MCP'",
    "Course: MCP\nLink: https://example.com/mcp\nLesson 0: Intro\nLesson 1: Servers" }

NotFoundMessage(name) == "Tool '" \o name \o "' not found"

\* CourseSearchTool.execute: the sources are recorded when documents are
\* formatted; an error or an empty result returns before that
SearchExecute(sources) ==
  { [raises |-> "", result |-> o.result,
     sources |-> IF o.kind = "hits" THEN o.sources ELSE sources,
     recorded |-> o.kind = "hits", ran |-> TRUE] : o \in SearchOutcomes }

\* CourseOutlineTool.execute records no sources
OutlineExecute(sources) ==
  { [raises |-> "", result |-> r, sources |-> sources, recorded |-> FALSE, ran |-> TRUE] :
      r \in OutlineResults }

\* ToolManager.execute_tool(name, **kwargs): every way the call can end,
\* given the sources recorded before it
execute_tool(name, kwargs, sources) ==
  IF name \notin RegisteredTools
  THEN { [raises |-> "", result |-> NotFoundMessage(name), sources |-> sources,
          recorded |-> FALSE, ran |-> FALSE] }
  ELSE IF ~(Required(name) \subseteq Keys(kwargs) /\ Keys(kwargs) \subseteq Declared(name))
       THEN { [raises |-> "TypeError", result |-> "", sources |-> sources,
               recorded |-> FALSE, ran |-> FALSE] }
       ELSE IF name = SEARCH_TOOL THEN SearchExecute(sources) ELSE OutlineExecute(sources)

\* ToolManager.get_last_sources
get_last_sources(sources) == sources

\* ToolManager.reset_sources
reset_sources(sources) == << >>

(***************************************************************************)
(* The retrieval engine (vector_store.py: VectorStore, SearchResults) and  *)
(* the data it indexes (models.py: Course, Lesson, CourseChunk).           *)
(***************************************************************************)
\* Config.MAX_RESULTS
MAX_RESULTS == 5
\* the largest limit passed to search explicitly
MaxLimit == 2

\* an optional value: None or the value
None == << >>
Some(x) == << x >>

Lesson(n, title, link) == [lesson_number |-> n, title |-> title, lesson_link |-> link]
Course(title, link, lessons) == [title |-> title, course_link |-> link, lessons |-> lessons]
CourseChunk(content, course_title, lesson_number, chunk_index) ==
  [content |-> content, course_title |-> course_title,
   lesson_number |-> lesson_number, chunk_index |-> chunk_index]

COURSE_MCP == "MCP: Build Rich-Context AI Apps"
COURSE_PYTHON == "Python Basics"

\* the courses the ingestion may add: one course in every insertion order
\* of its lessons, and a second course
IngestCourses ==
  { Course(COURSE_MCP, "https://example.com/mcp", o) :
      o \in { p \in [1..3 -> { Lesson(0, "Introduction", Some("https://example.com/mcp/0")),
                               Lesson(1, "Servers", Some("https://example.com/mcp/1")),
                               Lesson(2, "Clients", None) }] :
                \A i, j \in 1..3 : i # j => p[i] # p[j] } } \cup
  { Course(COURSE_PYTHON, "https://example.com/py",
           << Lesson(0, "Intro", Some("https://example.com/py/0")),
              Lesson(1, "Variables", None) >>) }

\* the chunks of each course, one of them bound to no lesson
IngestChunks ==
  { { CourseChunk("What MCP is", COURSE_MCP, Some(0), 0),
      CourseChunk("API endpoints of a server", COURSE_MCP, Some(1), 1),
      CourseChunk("Running a server", COURSE_MCP, Some(1), 2),
      CourseChunk("API of a client", COURSE_MCP, Some(2), 3),
      CourseChunk("About this course", COURSE_MCP, None, 4) },
    { CourseChunk("Python is a programming language", COURSE_PYTHON, Some(0), 5),
      CourseChunk("Variables store data", COURSE_PYTHON, Some(1), 6) } }

\* the course names a caller passes: partial names of the two courses and
\* a name of no course
CourseNames == {"MCP", "Python", "NonExistentCourse12345"}

\* whether a name passed by a caller is a name of the course
Names(name, title) ==
  \/ name = title
  \/ name = "MCP" /\ title = COURSE_MCP
  \/ name = "Python" /\ title = COURSE_PYTHON

\* the distance the embedding gives a name and a course title: small for a
\* name of the course, large but finite for every other pair
NameDistance(name, title) ==
  IF Names(name, title) THEN 1
  ELSE IF title = COURSE_MCP THEN 8 ELSE 9

\* resolve_course_name: one nearest-neighbour lookup in the course-metadata
\* index; not-found when the index is empty or the lookup fails
resolve_course_name(cat, name, lookup_ok) ==
  IF ~lookup_ok \/ cat = {} THEN None
  ELSE Some((CHOOSE c \in cat :
               \A d \in cat : NameDistance(name, c.title) <= NameDistance(name, d.title)).title)

\* SearchResults: documents, metadata and distances in ranked order, and an
\* optional error message
SearchResults(documents, metadata, distances, error) ==
  [documents |-> documents, metadata |-> metadata, distances |-> distances,
   error |-> error]

\* SearchResults.empty(error_msg)
SearchResults_empty(error_msg) == SearchResults(<< >>, << >>, << >>, Some(error_msg))

\* the distances of the hits are left out
from_chroma_without_distances(hits) ==
  SearchResults([i \in DOMAIN hits |-> hits[i].chunk.content],
                [i \in DOMAIN hits |->
                   [course_title |-> hits[i].chunk.course_title,
                    lesson_number |-> hits[i].chunk.lesson_number]],
                << >>, None)

\* SearchResults.from_chroma: the three sequences of the backend's answer
from_chroma(hits) ==
  SearchResults([i \in DOMAIN hits |-> hits[i].chunk.content],
                [i \in DOMAIN hits |->
                   [course_title |-> hits[i].chunk.course_title,
                    lesson_number |-> hits[i].chunk.lesson_number]],
                [i \in DOMAIN hits |-> hits[i].distance], None)

\* SearchResults.is_empty
is_empty(results) == Len(results.documents) = 0

\* the two conditions are combined with OR
Matches_either(chunk, where) ==
  CASE where.kind = "none" -> TRUE
    [] where.kind = "course" -> chunk.course_title = where.course_title
    [] where.kind = "lesson" -> chunk.lesson_number = Some(where.lesson_number)
    [] where.kind = "and" -> \/ chunk.course_title = where.course_title
                             \/ chunk.lesson_number = Some(where.lesson_number)

\* the chunks a filter of the content index selects
Matches(chunk, where) ==
  CASE where.kind = "none" -> TRUE
    [] where.kind = "course" -> chunk.course_title = where.course_title
    [] where.kind = "lesson" -> chunk.lesson_number = Some(where.lesson_number)
    [] where.kind = "and" -> /\ chunk.course_title = where.course_title
                             /\ chunk.lesson_number = Some(where.lesson_number)

\* the filter of a search: both conditions, one of them, or none
_build_filter(course_title, lesson_number) ==
  IF course_title = None /\ lesson_number = None
  THEN [kind |-> "none", course_title |-> "", lesson_number |-> 0]
  ELSE IF course_title # None /\ lesson_number # None
       THEN [kind |-> "and", course_title |-> course_title[1],
             lesson_number |-> lesson_number[1]]
       ELSE IF course_title # None
            THEN [kind |-> "course", course_title |-> course_title[1], lesson_number |-> 0]
            ELSE [kind |-> "lesson", course_title |-> "", lesson_number |-> lesson_number[1]]

\* the queries searched for
Queries == {"API"}

\* the distance the embedding gives the query and a chunk, by chunk index
ChunkDistance(query, chunk) == << 5, 1, 4, 2, 6, 7, 3 >>[chunk.chunk_index + 1]

\* the chunks of a set, nearest first
RECURSIVE Ranked(_, _)
Ranked(query, S) ==
  IF S = {} THEN << >>
  ELSE LET c == CHOOSE c \in S :
                  \A d \in S : ChunkDistance(query, c) <= ChunkDistance(query, d)
       IN  << [chunk |-> c, distance |-> ChunkDistance(query, c)] >> \o
           Ranked(query, S \ {c})

\* the n nearest hits and no more than the backend returned
FirstN_unbounded(hits, n) == hits

FirstN(hits, n) == SubSeq(hits, 1, Min({n, Len(hits)}))

\* the content index is queried for the n_results nearest chunks the filter
\* selects.  The backend may fail on any query; with n_results = 0 it fails
\* or returns nothing.
QueryContent(idx, query, where, n_results) ==
  { [raised |-> TRUE, hits |-> << >>] } \cup
  { [raised |-> FALSE,
     hits |-> FirstN(Ranked(query, { c \in idx : Matches(c, where) }), n_results)] }

COURSE_NOT_FOUND(name) == "No course found matching '" \o name \o "'"
SEARCH_ERROR == "Search error: backend failure"

\* the failure of the backend leaves search as an exception
OnBackendFailure_propagated(error_msg) == [raises |-> "Exception", results |-> SearchResults(<< >>, << >>, << >>, None)]

\* a failure of the backend is caught and returned as an error result
OnBackendFailure(error_msg) == [raises |-> "", results |-> SearchResults_empty(error_msg)]

\* VectorStore.search: every way the call can end.  queried tells whether
\* the content index was queried and where with which filter, failed
\* whether the backend failed, raises what the call raised.
search(cat, idx, max, query, course_name, lesson_number, limit) ==
  LET Found(course_title) ==
        LET where == _build_filter(course_title, lesson_number)
            n_results == IF limit # None THEN limit[1] ELSE max
        IN  { [results |-> IF o.raised THEN OnBackendFailure(SEARCH_ERROR).results
                           ELSE from_chroma(o.hits),
               raises |-> IF o.raised THEN OnBackendFailure(SEARCH_ERROR).raises ELSE "",
               failed |-> o.raised, queried |-> TRUE, where |-> where] :
              o \in QueryContent(idx, query, where, n_results) }
  IN  IF course_name = None THEN Found(None)
      ELSE UNION { LET title == resolve_course_name(cat, course_name[1], lookup_ok)
                   IN  IF title = None
                       THEN { [results |-> SearchResults_empty(COURSE_NOT_FOUND(course_name[1])),
                               raises |-> "", failed |-> ~lookup_ok,
                               queried |-> FALSE, where |-> _build_filter(None, None)] }
                       ELSE Found(title) : lookup_ok \in BOOLEAN }

(***************************************************************************)
(* The capability tools (search_tools.py: CourseSearchTool,                *)
(* CourseOutlineTool) on the retrieval engine.                             *)
(***************************************************************************)
\* the label of a document: the course title and the lesson, if it has one
Label(meta) ==
  IF meta.lesson_number = None THEN meta.course_title
  ELSE meta.course_title \o " - Lesson " \o ToString(meta.lesson_number[1])

\* the link of the lesson of a document, when the course-metadata index
\* holds the course, the lesson and a link for it
get_lesson_link(cat, meta) ==
  LET found == { l \in UNION { Range(c.lessons) : c \in { d \in cat : d.title = meta.course_title } } :
                   Some(l.lesson_number) = meta.lesson_number /\ l.lesson_link # None }
  IN  IF found = {} THEN ABSENT ELSE (CHOOSE l \in found : TRUE).lesson_link[1]

\* sep.join(parts)
RECURSIVE JoinWith(_, _)
JoinWith(parts, sep) ==
  IF parts = << >> THEN ""
  ELSE IF Len(parts) = 1 THEN parts[1]
       ELSE parts[1] \o sep \o JoinWith(Tail(parts), sep)

\* one labeled block per document, in the order of the results
FormatResults(results) ==
  JoinWith([i \in DOMAIN results.documents |->
              "[" \o Label(results.metadata[i]) \o "]\n" \o results.documents[i]],
           "\n\n")

\* one source record per document, in the order of the results
SourcesOf(cat, results) ==
  [i \in DOMAIN results.documents |->
     SourceRecord(Label(results.metadata[i]), get_lesson_link(cat, results.metadata[i]))]

\* the fixed message of an empty result, naming the filters applied
NO_RELEVANT_CONTENT(course_name, lesson_number) ==
  "No relevant content found" \o
  (IF course_name = None THEN "" ELSE " in course '" \o course_name[1] \o "'") \o
  (IF lesson_number = None THEN "" ELSE " in lesson " \o ToString(lesson_number[1])) \o "."

\* the empty result is tested before the error
Report_empty_first(cat, results, course_name, lesson_number, sources) ==
  IF is_empty(results)
  THEN [output |-> NO_RELEVANT_CONTENT(course_name, lesson_number), sources |-> sources]
  ELSE IF results.error # None
       THEN [output |-> results.error[1], sources |-> sources]
       ELSE [output |-> FormatResults(results), sources |-> SourcesOf(cat, results)]

\* what execute makes of a search result: the error, the fixed message of an
\* empty result, or the formatted documents, whose sources it records
Report(cat, results, course_name, lesson_number, sources) ==
  IF results.error # None
  THEN [output |-> results.error[1], sources |-> sources]
  ELSE IF is_empty(results)
       THEN [output |-> NO_RELEVANT_CONTENT(course_name, lesson_number), sources |-> sources]
       ELSE [output |-> FormatResults(results), sources |-> SourcesOf(cat, results)]

\* CourseSearchTool.execute(query, course_name, lesson_number): search with
\* the configured limit, then the report; sources is last_sources before
\* the call
CourseSearchTool_execute(cat, idx, max, query, course_name, lesson_number, sources) ==
  { IF s.raises # ""
    THEN [results |-> s.results, raises |-> s.raises, failed |-> s.failed,
          queried |-> s.queried, where |-> s.where, output |-> "", sources |-> sources]
    ELSE [results |-> s.results, raises |-> "", failed |-> s.failed,
          queried |-> s.queried, where |-> s.where,
          output |-> Report(cat, s.results, course_name, lesson_number, sources).output,
          sources |-> Report(cat, s.results, course_name, lesson_number, sources).sources] :
    s \in search(cat, idx, max, query, course_name, lesson_number, None) }

\* the lessons as the course-metadata index holds them
OutlineLessons_as_inserted(lessons) == lessons

\* the lessons in ascending lesson-number order
RECURSIVE OutlineLessons(_)
OutlineLessons(lessons) ==
  IF lessons = << >> THEN << >>
  ELSE LET i == CHOOSE i \in DOMAIN lessons :
                  \A j \in DOMAIN lessons : lessons[i].lesson_number <= lessons[j].lesson_number
       IN  << lessons[i] >> \o
           OutlineLessons(SubSeq(lessons, 1, i - 1) \o SubSeq(lessons, i + 1, Len(lessons)))

\* VectorStore.get_course_outline: the title is resolved and the course read
get_course_outline(cat, course_title, lookup_ok) ==
  LET title == resolve_course_name(cat, course_title, lookup_ok)
  IN  IF title = None THEN None
      ELSE Some(CHOOSE c \in cat : c.title = title[1])

\* the lines of an outline: title, link and one line per lesson
FormatOutline(course) ==
  JoinWith(<< "Course: " \o course.title, "Link: " \o course.course_link >> \o
           [i \in DOMAIN course.lessons |->
              "Lesson " \o ToString(OutlineLessons(course.lessons)[i].lesson_number) \o ": " \o
              OutlineLessons(course.lessons)[i].title],
           "\n")

\* CourseOutlineTool.execute(course_title)
CourseOutlineTool_execute(cat, course_title, lookup_ok) ==
  LET outline == get_course_outline(cat, course_title, lookup_ok)
  IN  IF outline = None THEN COURSE_NOT_FOUND(course_title)
      ELSE FormatOutline(outline[1])

(***************************************************************************)
(* AIGenerator.generate_response, one frame per call.                      *)
(***************************************************************************)
SYSTEM_PROMPT == "You are an AI assistant specialized in course materials"
NoHistory == ""
QUESTION == "What is MCP?"
TOOL_RESULT_PREFIX == "Tool result:\n"
TOOL_RESULT_SUFFIX == "\n\nNow provide your final answer based on these search results. Be concise and do not mention that you searched."

Message(role, content) == [role |-> role, content |-> content]

\* lines 75-83: the system message, with the history when there is one, and
\* the user message
BuildMessages(query, history) ==
  << Message("system",
             IF history # NoHistory
             THEN << SYSTEM_PROMPT, "\n\nPrevious conversation:\n", history >>
             ELSE << SYSTEM_PROMPT >>),
     Message("user", << query >>) >>

\* the follow-up request carries the first completion but not the tool result
BuildFollowUp_without_result(messages, initial_response, tool_result) ==
  messages \o
  << Message("assistant", initial_response),
     Message("user", << TOOL_RESULT_PREFIX, "", TOOL_RESULT_SUFFIX >>) >>

\* lines 138-146: a copy of the messages with the first completion and the
\* tool result appended
BuildFollowUp(messages, initial_response, tool_result) ==
  messages \o
  << Message("assistant", initial_response),
     Message("user", << TOOL_RESULT_PREFIX, tool_result, TOOL_RESULT_SUFFIX >>) >>

\* the follow-up messages are appended to the caller's list itself
KeptMessages_aliased(messages, messages_with_result) == messages_with_result

\* line 138: messages.copy() leaves the list of the first request as it was
KeptMessages(messages, messages_with_result) == messages

\* every detected invocation is handled, registry or not
ShouldHandle_ignoring_manager(tool_call, tool_manager) == Truthy(tool_call)

\* line 97: if tool_call and tool_manager
ShouldHandle(tool_call, tool_manager) == Truthy(tool_call) /\ tool_manager

\* the final completion is scanned for an invocation again
AfterFinal_loop(final_text, tool_manager) ==
  IF ShouldHandle(_extract_tool_call(final_text), tool_manager) THEN "tool" ELSE "returned"

\* line 155: the cleaned final completion is returned, whatever it holds
AfterFinal(final_text, tool_manager) == "returned"

\* the exception of a failed completion request is swallowed
ChatFailure_swallowed == "returned"

\* lines 86-90 and 149-153: client.chat is called outside any try
ChatFailure == "raised"

\* the error a failed completion request raises (ollama.ResponseError or a
\* connection error)
BACKEND_ERROR == "ResponseError"

IdleFrame ==
  [pc |-> "idle", tool_manager |-> FALSE, query |-> "", history |-> NoHistory,
   messages |-> << >>, response_text |-> << "<unset>" >>, tool_call |-> PyNone,
   tool_name |-> "", tool_args |-> {}, tool_result |-> "",
   messages_with_result |-> << >>,
   final_text |-> << "<unset>" >>, answer |-> << "<unset>" >>, exc |-> "",
   requests |-> << >>]

NoText == << "<unset>" >>

Turns == 1..NumTurns

\* the completions of the follow-up request: plain, with white space to
\* trim, and holding an invocation block again
SecondTexts ==
  { << WORD >>, << SP, WORD, NL >>, Block(Render(GoodSearch, "line")) \o << WORD >> }

(***************************************************************************)
(* State.                                                                  *)
(***************************************************************************)
VARIABLES
  \* the pure functions applied to one text
  input,         \* the text given to _extract_tool_call and _clean_response
  intended,      \* the JSON value the text's single block was written from
  extracted,     \* what _extract_tool_call returned
  cleaned,       \* what _clean_response returned
  stage,         \* which of the two has been applied
  \* the turns
  gen,           \* gen[t]: the frame of turn t's generate_response call
  last_sources,  \* CourseSearchTool.last_sources of the shared registry
  trace,         \* trace[t]: the requests turn t has made, in order
  wrote,         \* wrote[t]: the sources turn t's tool execution recorded
  \* the web handler
  req,           \* req[t]: the request of turn t and what query returned
  resp,          \* resp[t]: the response sent for turn t
  loop,          \* the turn whose handler the event loop is running, or 0
  sessions,      \* sessions created by the session manager
  \* the retrieval engine
  catalog,       \* the course-metadata index: the courses added
  chunks,        \* the content index: the chunks added
  max_results,   \* VectorStore.max_results
  call           \* the last call made on the engine or on a tool, and its result

pureVars == << input, intended, extracted, cleaned, stage >>
turnVars == << gen, last_sources, trace, wrote >>
webVars == << req, resp, loop, sessions >>
storeVars == << catalog, chunks, max_results, call >>
vars == << input, intended, extracted, cleaned, stage,
           gen, last_sources, trace, wrote, req, resp, loop, sessions,
           catalog, chunks, max_results, call >>

CLIENT_SESSION == "session_client"
NoRequest == [phase |-> "idle", session_id |-> "", returned |-> FALSE,
              answer |-> NoText, sources |-> << >>, overlapped |-> FALSE]
NoResponse == [status |-> 0, answer |-> NoText, sources |-> << >>, session_id |-> "",
               detail |-> ""]

InitPure ==
  /\ input = NoText
  /\ intended = PyNone
  /\ extracted = PyNone
  /\ cleaned = NoText
  /\ stage = "unused"

InitTurns ==
  /\ gen = [t \in Turns |-> IdleFrame]
  /\ last_sources = << >>
  /\ trace = [t \in Turns |-> << >>]
  /\ wrote = [t \in Turns |-> << >>]

InitWeb ==
  /\ req = [t \in Turns |-> NoRequest]
  /\ resp = [t \in Turns |-> NoResponse]
  /\ loop = 0
  /\ sessions = 0

\* no call made yet
NoCall ==
  [op |-> "none", query |-> "", course_name |-> None, lesson_number |-> None,
   limit |-> None, resolved |-> None, queried |-> FALSE,
   where |-> _build_filter(None, None),
   failed |-> FALSE, raises |-> "",
   results |-> SearchResults(<< >>, << >>, << >>, None), output |-> "",
   before |-> << >>]

\* VectorStore(chroma_path, embedding_model, max_results): both indexes empty
InitStore ==
  /\ catalog = {}
  /\ chunks = {}
  /\ max_results = MAX_RESULTS
  /\ call = NoCall

(***************************************************************************)
(* SpecText: _extract_tool_call and _clean_response on every text.         *)
(***************************************************************************)
InitText ==
  /\ \/ /\ input \in SegmentTexts
        /\ intended = PyNone
     \/ \E v \in JsonValues, l \in Layouts, pre \in FreeTexts, post \in FreeTexts :
          /\ input = pre \o Block(Render(v, l)) \o post
          /\ intended = v
     \/ \E b \in InvalidBodies, pre \in FreeTexts, post \in FreeTexts :
          /\ input = pre \o Block(b) \o post
          /\ intended = JSONDecodeError
  /\ extracted = PyNone
  /\ cleaned = NoText
  /\ stage = "text"
  /\ InitTurns
  /\ InitWeb
  /\ InitStore

ApplyExtract ==
  /\ stage = "text"
  /\ extracted' = _extract_tool_call(input)
  /\ stage' = "extracted"
  /\ UNCHANGED << input, intended, cleaned, turnVars, webVars, storeVars >>

ApplyClean ==
  /\ stage = "extracted"
  /\ cleaned' = _clean_response(input)
  /\ stage' = "cleaned"
  /\ UNCHANGED << input, intended, extracted, turnVars, webVars, storeVars >>

NextText == ApplyExtract \/ ApplyClean

SpecText == InitText /\ [][NextText]_vars

(***************************************************************************)
(* The steps of one generate_response call.  A step runs from one external *)
(* call (a completion request, the tool) to the next.                      *)
(***************************************************************************)
Raise(frame, e) == [frame EXCEPT !.pc = "raised", !.exc = e]

\* lines 75-83: generate_response is entered and the messages are built
Enter(t, query, history, tool_manager) ==
  gen' = [gen EXCEPT ![t] =
            [IdleFrame EXCEPT !.pc = "first", !.query = query, !.history = history,
                              !.tool_manager = tool_manager,
                              !.messages = BuildMessages(query, history)]]

\* client.chat(model, messages, options): the request is recorded
Sent(frame, messages) == [frame EXCEPT !.requests = Append(@, messages)]

\* lines 85-101: the first completion is requested; its text is searched
\* for an invocation, which is handled or the cleaned text returned
FirstCompletion(t, texts) ==
  /\ gen[t].pc = "first"
  /\ LET frame == Sent(gen[t], gen[t].messages)
     IN  \/ /\ gen' = [gen EXCEPT ![t] =
                         IF ChatFailure = "raised" THEN Raise(frame, BACKEND_ERROR)
                         ELSE [frame EXCEPT !.pc = "returned", !.answer = << >>]]
            /\ trace' = [trace EXCEPT ![t] = Append(@, "chat failed")]
         \/ \E response_text \in texts :
              LET tool_call == _extract_tool_call(response_text)
              IN  /\ gen' = [gen EXCEPT ![t] =
                               IF ShouldHandle(tool_call, frame.tool_manager)
                               THEN [frame EXCEPT !.pc = "tool",
                                                  !.response_text = response_text,
                                                  !.tool_call = tool_call]
                               ELSE [frame EXCEPT !.pc = "returned",
                                                  !.response_text = response_text,
                                                  !.tool_call = tool_call,
                                                  !.answer = _clean_response(response_text)]]
                  /\ trace' = [trace EXCEPT ![t] = Append(@, "chat")]
  /\ UNCHANGED << last_sources, wrote, pureVars, webVars, storeVars >>

\* tool_call.get("name", ""): only a dict has get
ToolName(tool_call) == IF tool_call.name = ABSENT THEN "" ELSE tool_call.name
\* the arguments of the block are dropped
ToolArgs_dropped(tool_call) == "{}"

\* tool_call.get("arguments", {})
ToolArgs(tool_call) == IF tool_call.args = ABSENT THEN "{}" ELSE tool_call.args

\* lines 131-146 of _handle_tool_execution: the name and the arguments are
\* read, the tool is executed through the registry, and the follow-up
\* messages are built
ToolExecution(t) ==
  /\ gen[t].pc = "tool"
  /\ LET tool_call == gen[t].tool_call
     IN  IF tool_call.kind # "dict"
         THEN /\ gen' = [gen EXCEPT ![t] = Raise(@, "AttributeError")]
              /\ UNCHANGED << last_sources, trace, wrote >>
         ELSE IF ~ArgLiteralOf(ToolArgs(tool_call)).mapping
         THEN /\ gen' = [gen EXCEPT ![t] = Raise(@, "TypeError")]
              /\ UNCHANGED << last_sources, trace, wrote >>
         ELSE LET tool_name == ToolName(tool_call)
                  tool_args == ArgLiteralOf(ToolArgs(tool_call)).kwargs
                  called == [gen[t] EXCEPT !.tool_name = tool_name,
                                           !.tool_args = tool_args]
              IN
              \E out \in execute_tool(tool_name, tool_args, last_sources) :
                /\ trace' = [trace EXCEPT ![t] =
                               Append(@, IF out.raises # "" THEN "tool raised"
                                         ELSE IF out.ran THEN "tool ran" ELSE "tool")]
                /\ last_sources' = out.sources
                /\ IF out.raises # ""
                   THEN /\ gen' = [gen EXCEPT ![t] = Raise(called, out.raises)]
                        /\ UNCHANGED wrote
                   ELSE /\ gen' = [gen EXCEPT ![t] =
                                     [called EXCEPT !.pc = "second",
                                               !.tool_result = out.result,
                                               !.messages =
                                                  KeptMessages(@,
                                                    BuildFollowUp(gen[t].messages,
                                                                  gen[t].response_text,
                                                                  out.result)),
                                               !.messages_with_result =
                                                  BuildFollowUp(gen[t].messages,
                                                                gen[t].response_text,
                                                                out.result)]]
                        /\ wrote' = [wrote EXCEPT ![t] =
                                       IF out.recorded THEN out.sources ELSE @]
  /\ UNCHANGED << pureVars, webVars, storeVars >>

\* lines 148-155: the second completion is requested and its cleaned text
\* returned
SecondCompletion(t, texts) ==
  /\ gen[t].pc = "second"
  /\ LET frame == Sent(gen[t], gen[t].messages_with_result)
     IN  \/ /\ gen' = [gen EXCEPT ![t] =
                         IF ChatFailure = "raised" THEN Raise(frame, BACKEND_ERROR)
                         ELSE [frame EXCEPT !.pc = "returned", !.answer = << >>]]
            /\ trace' = [trace EXCEPT ![t] = Append(@, "chat failed")]
         \/ \E final_text \in texts :
              /\ gen' = [gen EXCEPT ![t] =
                           [frame EXCEPT !.pc = AfterFinal(final_text, frame.tool_manager),
                                         !.final_text = final_text,
                                         !.answer = _clean_response(final_text)]]
              /\ trace' = [trace EXCEPT ![t] = Append(@, "chat")]
  /\ UNCHANGED << last_sources, wrote, pureVars, webVars, storeVars >>

(***************************************************************************)
(* SpecGen: one generate_response call, as the tests make it, on every     *)
(* first completion, with and without a registry.                          *)
(***************************************************************************)
InitGen == InitPure /\ InitTurns /\ InitWeb /\ InitStore

Call(t) ==
  /\ gen[t].pc = "idle"
  /\ \E tool_manager \in BOOLEAN : Enter(t, QUESTION, NoHistory, tool_manager)
  /\ UNCHANGED << last_sources, trace, wrote, pureVars, webVars, storeVars >>

NextGen ==
  \/ Call(1)
  \/ FirstCompletion(1, AllTexts)
  \/ ToolExecution(1)
  \/ SecondCompletion(1, SecondTexts)

SpecGen == InitGen /\ [][NextGen]_vars

(***************************************************************************)
(* Spec: the web handler query_documents on the module-level rag_system.   *)
(* The handler is an async function that awaits nothing: the event loop    *)
(* runs one handler call from its first line to its response before it     *)
(* starts another, in any order of the requests received.                  *)
(***************************************************************************)
\* the first completions of the turns the handler runs: a direct answer, an
\* invocation of the search tool, of an unregistered tool, and a block
\* holding a JSON list
HandlerTexts ==
  { << WORD >>,
    Block(Render(GoodSearch, "line")),
    << WORD, NL >> \o Block(Render(PyDict(UNKNOWN_TOOL, "{\"query\": \"API\"}"), "lines")),
    Block(<< "[1]" >>) }

\* the follow-up completions the handlers receive: plain, and holding an
\* invocation block again
HandlerFinalTexts ==
  { << WORD >>, Block(Render(GoodSearch, "line")) \o << WORD >> }

\* session_manager.create_session
SessionId(n) == "session_" \o ToString(n)

\* session_manager.get_conversation_history: nothing for a new session
HistoryOf(session_id) == IF session_id = CLIENT_SESSION THEN "User: hi\nAssistant: hello" ELSE NoHistory

\* rag_system.query wraps the question in its prompt
Prompt(query) == "Answer this question about course materials: " \o query

\* the response model declares sources: List[str]
SourcesValidate(sources) == \A i \in DOMAIN sources : sources[i].type = "str"

\* lines 89-90: except Exception as e: raise HTTPException(status_code=500, detail=str(e))
ErrorResponse(session_id, e) ==
  [status |-> 500, answer |-> NoText, sources |-> << >>, session_id |-> "", detail |-> e]

\* lines 83-88: the response model is built and validated
QueryResponse(answer, sources, session_id) ==
  IF SourcesValidate(sources)
  THEN [status |-> 200, answer |-> answer, sources |-> sources, session_id |-> session_id,
        detail |-> ""]
  ELSE ErrorResponse(session_id, "ValidationError")

InitServer == InitPure /\ InitTurns /\ InitWeb /\ InitStore

InFlight(t) == req[t].phase \in {"pending", "running"}

\* a request arrives, with the session id of the client or none; it and the
\* requests in flight at that moment are marked as overlapping
Receive(t) ==
  /\ req[t].phase = "idle"
  /\ \E sid \in {"", CLIENT_SESSION} :
       req' = [u \in Turns |->
                 IF u = t
                 THEN [req[u] EXCEPT !.phase = "pending", !.session_id = sid,
                                     !.overlapped = \E w \in Turns : InFlight(w)]
                 ELSE [req[u] EXCEPT !.overlapped = @ \/ InFlight(u)]]
  /\ UNCHANGED << resp, loop, sessions, turnVars, pureVars, storeVars >>

\* lines 72-79: the event loop starts the handler; a session is created when
\* the request names none, and rag_system.query calls generate_response
\* with the shared registry
StartHandler(t) ==
  /\ req[t].phase = "pending"
  /\ loop = 0
  /\ loop' = t
  /\ LET create == req[t].session_id = ""
         session_id == IF create THEN SessionId(sessions + 1) ELSE req[t].session_id
     IN  /\ sessions' = IF create THEN sessions + 1 ELSE sessions
         /\ req' = [req EXCEPT ![t] = [@ EXCEPT !.phase = "running", !.session_id = session_id]]
         /\ Enter(t, Prompt(QUESTION), HistoryOf(session_id), TRUE)
  /\ UNCHANGED << resp, last_sources, trace, wrote, pureVars, storeVars >>

\* generate_response returned: rag_system.query reads the sources of the
\* registry, resets them and returns; the handler builds the response
Respond(t) ==
  /\ loop = t
  /\ gen[t].pc = "returned"
  /\ LET sources == get_last_sources(last_sources)
     IN  /\ last_sources' = reset_sources(last_sources)
         /\ req' = [req EXCEPT ![t] = [@ EXCEPT !.phase = "done", !.returned = TRUE,
                                                !.answer = gen[t].answer,
                                                !.sources = sources]]
         /\ resp' = [resp EXCEPT ![t] = QueryResponse(gen[t].answer, sources, req[t].session_id)]
  /\ loop' = 0
  /\ UNCHANGED << gen, trace, wrote, sessions, pureVars, storeVars >>

\* generate_response raised: nothing between it and the handler catches
\* the exception, and the handler answers with status 500
RespondError(t) ==
  /\ loop = t
  /\ gen[t].pc = "raised"
  /\ req' = [req EXCEPT ![t] = [@ EXCEPT !.phase = "done"]]
  /\ resp' = [resp EXCEPT ![t] = ErrorResponse(req[t].session_id, gen[t].exc)]
  /\ loop' = 0
  /\ UNCHANGED << gen, last_sources, trace, wrote, sessions, pureVars, storeVars >>

Next ==
  \E t \in Turns :
    \/ Receive(t)
    \/ StartHandler(t)
    \/ FirstCompletion(t, HandlerTexts)
    \/ ToolExecution(t)
    \/ SecondCompletion(t, HandlerFinalTexts)
    \/ Respond(t)
    \/ RespondError(t)

Spec == InitServer /\ [][Next]_vars

(***************************************************************************)
(* SpecSearch: one VectorStore, filled by the ingestion, with one          *)
(* CourseSearchTool and one CourseOutlineTool on it; any sequence of       *)
(* calls, each with every outcome the backend allows.                      *)
(***************************************************************************)
\* the store as configured (conftest.py line 33) or with max_results = 0
\* (conftest.py line 43)
InitSearch ==
  /\ InitPure
  /\ InitTurns
  /\ InitWeb
  /\ catalog = {}
  /\ chunks = {}
  /\ max_results \in {MAX_RESULTS, 0}
  /\ call = NoCall

\* add_course_metadata(course): one entry per title; the documents are
\* loaded at startup, before the first call
add_course_metadata(course) ==
  /\ call = NoCall
  /\ \A c \in catalog : c.title # course.title
  /\ catalog' = catalog \cup {course}
  /\ UNCHANGED << chunks, max_results, last_sources, call >>
  /\ UNCHANGED << gen, trace, wrote, pureVars, webVars >>

\* add_course_content(chunks of one course)
add_course_content(cs) ==
  /\ call = NoCall
  /\ cs \cap chunks = {}
  /\ chunks' = chunks \cup cs
  /\ UNCHANGED << catalog, max_results, last_sources, call >>
  /\ UNCHANGED << gen, trace, wrote, pureVars, webVars >>

\* resolve_course_name(name)
Resolve(name, lookup_ok) ==
  /\ call' = [NoCall EXCEPT !.op = "resolve", !.course_name = Some(name),
                            !.resolved = resolve_course_name(catalog, name, lookup_ok)]
  /\ UNCHANGED << catalog, chunks, max_results, last_sources >>
  /\ UNCHANGED << gen, trace, wrote, pureVars, webVars >>

\* VectorStore.search(query, course_name, lesson_number, limit)
Search(query, course_name, lesson_number, limit) ==
  /\ \E s \in search(catalog, chunks, max_results, query, course_name, lesson_number, limit) :
       call' = [NoCall EXCEPT !.op = "search", !.query = query,
                              !.course_name = course_name,
                              !.lesson_number = lesson_number, !.limit = limit,
                              !.queried = s.queried, !.where = s.where,
                              !.failed = s.failed, !.raises = s.raises,
                              !.results = s.results]
  /\ UNCHANGED << catalog, chunks, max_results, last_sources >>
  /\ UNCHANGED << gen, trace, wrote, pureVars, webVars >>

\* CourseSearchTool.execute(query, course_name, lesson_number)
Execute(query, course_name, lesson_number) ==
  /\ \E e \in CourseSearchTool_execute(catalog, chunks, max_results, query,
                                       course_name, lesson_number, last_sources) :
       /\ call' = [NoCall EXCEPT !.op = "execute", !.query = query,
                                 !.course_name = course_name,
                                 !.lesson_number = lesson_number,
                                 !.queried = e.queried, !.where = e.where,
                                 !.failed = e.failed, !.raises = e.raises,
                                 !.results = e.results, !.output = e.output,
                                 !.before = last_sources]
       /\ last_sources' = e.sources
  /\ UNCHANGED << catalog, chunks, max_results >>
  /\ UNCHANGED << gen, trace, wrote, pureVars, webVars >>

\* CourseOutlineTool.execute(course_title)
Outline(course_title, lookup_ok) ==
  /\ call' = [NoCall EXCEPT !.op = "outline", !.course_name = Some(course_title),
                            !.resolved = resolve_course_name(catalog, course_title, lookup_ok),
                            !.output = CourseOutlineTool_execute(catalog, course_title, lookup_ok)]
  /\ UNCHANGED << catalog, chunks, max_results, last_sources >>
  /\ UNCHANGED << gen, trace, wrote, pureVars, webVars >>

NextSearch ==
  \/ \E course \in { c \in IngestCourses :
                       \A i, j \in DOMAIN c.lessons :
                         i < j => c.lessons[i].lesson_number < c.lessons[j].lesson_number } :
       add_course_metadata(course)
  \/ \E cs \in IngestChunks : add_course_content(cs)
  \/ \E name \in CourseNames, lookup_ok \in BOOLEAN : Resolve(name, lookup_ok)
  \/ \E query \in Queries, course_name \in {None} \cup { Some(n) : n \in CourseNames },
        lesson_number \in {None, Some(0), Some(1)},
        limit \in {None} \cup { Some(k) : k \in 0..MaxLimit } :
       Search(query, course_name, lesson_number, limit)
  \/ \E query \in Queries, course_name \in {None} \cup { Some(n) : n \in CourseNames },
        lesson_number \in {None, Some(0), Some(1)} :
       Execute(query, course_name, lesson_number)

SpecSearch == InitSearch /\ [][NextSearch]_vars

(***************************************************************************)
(* SpecOutline: the course-metadata index with the lessons of a course     *)
(* inserted in any order, and the CourseOutlineTool on it.                 *)
(***************************************************************************)
NextOutline ==
  \/ \E course \in IngestCourses : add_course_metadata(course)
  \/ \E name \in CourseNames, lookup_ok \in BOOLEAN : Resolve(name, lookup_ok)
  \/ \E course_title \in CourseNames, lookup_ok \in BOOLEAN : Outline(course_title, lookup_ok)

SpecOutline == InitSearch /\ [][NextOutline]_vars

(***************************************************************************)
(* Properties.                                                             *)
(***************************************************************************)
Count(seq, S) == Cardinality({ i \in DOMAIN seq : seq[i] \in S })
ToolEvents == {"tool", "tool ran", "tool raised"}
ChatEvents == {"chat", "chat failed"}
Ended(t) == gen[t].pc \in {"returned", "raised"}

RECURSIVE CountBlocksFrom(_, _)
CountBlocksFrom(txt, pos) ==
  LET m == SearchFrom(txt, pos)
  IN  IF m.found THEN 1 + CountBlocksFrom(txt, m.end + 1) ELSE 0
\* the blocks of a text: the matches of the pattern, left to right
CountBlocks(txt) == CountBlocksFrom(txt, 1)

\* C1: in one generate_response turn execute_tool is called at most once,
\* whatever the first completion holds (several blocks, malformed blocks,
\* text around the blocks).
C1_AtMostOneToolCall ==
  \A t \in Turns : Count(trace[t], ToolEvents) <= 1

\* C1 witness: a turn has ended whose first completion holds two blocks with
\* text between them, and execute_tool was called once.
C1_Witness ==
  /\ Ended(1)
  /\ CountBlocks(gen[1].response_text) >= 2
  /\ WORD \in Range(gen[1].response_text)
  /\ Count(trace[1], ToolEvents) = 1

\* C2: a turn makes its requests in the order first completion, tool
\* execution, second completion and nothing after them: the second
\* completion is requested only after the first succeeded and the tool
\* execution returned, and a block in the second completion starts no
\* further tool execution or completion.
C2_TwoCompletionsInOrder ==
  \A t \in Turns :
    /\ Len(trace[t]) <= 3
    /\ Len(trace[t]) >= 1 => trace[t][1] \in ChatEvents
    /\ Len(trace[t]) >= 2 => trace[t][1] = "chat" /\ trace[t][2] \in ToolEvents
    /\ Len(trace[t]) = 3 => trace[t][2] \in {"tool", "tool ran"} /\ trace[t][3] \in ChatEvents
    /\ Len(gen[t].requests) = Count(trace[t], ChatEvents)
    /\ Ended(t) => Len(trace[t]) >= 1

\* C2 witness: a turn has returned after both completions and its second
\* completion holds a well-formed invocation block.
C2_Witness ==
  /\ gen[1].pc = "returned"
  /\ trace[1] = << "chat", "tool ran", "chat" >>
  /\ WellFormed(_extract_tool_call(gen[1].final_text))

\* the first block of the text, from the first opening delimiter to the
\* next closing one, holds no JSON
FirstBlockInvalid(txt) ==
  LET m == re_search(txt)
  IN  m.found /\ json_loads(Group1(txt, m)).kind = "JSONDecodeError"

\* C5: when the first block of the first completion holds no valid JSON the
\* turn is one without invocation: no tool is executed, no second
\* completion is requested, nothing is raised and the answer is the cleaned
\* first completion.
C5_MalformedIsNoInvocation ==
  \A t \in Turns :
    (gen[t].response_text # NoText /\ FirstBlockInvalid(gen[t].response_text)) =>
      /\ gen[t].pc = "returned"
      /\ trace[t] = << "chat" >>
      /\ gen[t].answer = _clean_response(gen[t].response_text)

\* C5 witness: a turn with a registry returned on a first completion whose
\* first block is malformed and whose second block is well formed.
C5_Witness ==
  /\ gen[1].pc = "returned"
  /\ gen[1].tool_manager
  /\ FirstBlockInvalid(gen[1].response_text)
  /\ CountBlocks(gen[1].response_text) >= 2
  /\ WellFormed(_extract_tool_call_any_block(gen[1].response_text))

\* C6: generate_response raises nothing when both completion requests
\* succeed, whatever the first completion holds: the only exception a turn
\* ends with is the one of a failed completion request.
C6_NeverCrashes ==
  \A t \in Turns : gen[t].pc = "raised" => gen[t].exc = BACKEND_ERROR

\* the failure of a completion request of turn t
ChatFailed(t) == "chat failed" \in Range(trace[t])

\* C7: a failed first or second completion request ends generate_response
\* with the exception and without answer text, and the handler's response
\* for that turn has status 500 and carries no answer.
C7_BackendFailurePropagates ==
  \A t \in Turns :
    ChatFailed(t) =>
      /\ gen[t].pc = "raised"
      /\ gen[t].exc = BACKEND_ERROR
      /\ gen[t].answer = NoText
      /\ ~req[t].returned
      /\ req[t].phase = "done" => resp[t].status = 500 /\ resp[t].answer = NoText

\* C7 witness: two turns are answered, one whose first completion failed
\* and one whose second completion failed after its tool ran.
C7_Witness ==
  \E t \in Turns, u \in Turns :
    /\ req[t].phase = "done" /\ trace[t] = << "chat failed" >>
    /\ req[u].phase = "done" /\ trace[u] = << "chat", "tool ran", "chat failed" >>
    /\ resp[t].status = 500 /\ resp[u].status = 500

\* the call of turn t names a tool the registry does not hold
CallsUnregistered(t) ==
  /\ gen[t].tool_call.kind = "dict"
  /\ ArgLiteralOf(ToolArgs(gen[t].tool_call)).mapping
  /\ ToolName(gen[t].tool_call) \notin RegisteredTools

NotFoundTurn(name) ==
  Message("user", << TOOL_RESULT_PREFIX, NotFoundMessage(name), TOOL_RESULT_SUFFIX >>)

\* C8: execute_tool with an unregistered name returns the text
\* "Tool '<name>' not found", runs no tool, leaves the recorded sources as
\* they are and raises nothing; the turn then requests the second
\* completion with that text in the last user message.
C8_UnknownToolIsText ==
  [][ \A t \in Turns :
        /\ (gen[t].pc = "tool" /\ gen'[t].pc # "tool" /\ CallsUnregistered(t)) =>
             /\ gen'[t].pc = "second"
             /\ gen'[t].tool_result = NotFoundMessage(ToolName(gen[t].tool_call))
             /\ trace'[t] = Append(trace[t], "tool")
             /\ last_sources' = last_sources
             /\ wrote' = wrote
        /\ (gen[t].pc = "second" /\ gen'[t].pc # "second" /\ CallsUnregistered(t)) =>
             /\ Len(gen'[t].requests) = 2
             /\ gen'[t].requests[2] =
                  gen[t].messages \o
                  << Message("assistant", gen[t].response_text),
                     NotFoundTurn(ToolName(gen[t].tool_call)) >>
    ]_vars

\* C8 witness: a turn that called an unregistered tool has returned the
\* answer of its second completion, while sources recorded earlier are
\* still in the registry.
C8_Witness ==
  \E t \in Turns :
    /\ gen[t].pc = "returned"
    /\ trace[t] = << "chat", "tool", "chat" >>
    /\ gen[t].tool_result = NotFoundMessage(UNKNOWN_TOOL)
    /\ last_sources # << >>

\* C3: the sources rag_system.query returns with a turn's answer are the
\* source records the tool execution of that turn recorded, and none when
\* it recorded none.
C3_SourcesOfOwnTurn ==
  \A t \in Turns : req[t].returned => req[t].sources = wrote[t]

\* C4: a turn that was in flight together with another turn returns the
\* sources of its own tool execution: not those of the other turn, and not
\* an empty list because the other turn cleared them.
C4_ConcurrentTurnsKeepSources ==
  \A t \in Turns :
    (req[t].returned /\ req[t].overlapped) =>
      /\ \A i \in DOMAIN req[t].sources :
           req[t].sources[i] \in Range(wrote[t])
      /\ \A i \in DOMAIN wrote[t] : wrote[t][i] \in Range(req[t].sources)

RECURSIVE OutsideFrom(_, _)
OutsideFrom(txt, pos) ==
  IF pos > Len(txt) THEN << >>
  ELSE IF \E j \in DOMAIN txt : MatchAt(txt, pos, j)
       THEN OutsideFrom(txt, (CHOOSE j \in DOMAIN txt : MatchAt(txt, pos, j)) + 1)
       ELSE << txt[pos] >> \o OutsideFrom(txt, pos + 1)
\* the segments of a text outside its blocks, concatenated
OutsideBlocks(txt) == OutsideFrom(txt, 1)

\* C9: the text _clean_response returns holds no opening and no closing
\* delimiter, and is the trimmed concatenation of the segments outside the
\* blocks.
C9_CleanRemovesDelimiters ==
  stage = "cleaned" =>
    /\ OPEN \notin Range(cleaned)
    /\ CLOSE \notin Range(cleaned)
    /\ cleaned = strip(OutsideBlocks(input))

\* C10: on a text with one well-formed invocation block, _extract_tool_call
\* returns the name and the arguments the block was written from, whatever
\* free text stands before and after the block and whether the JSON is on
\* one line or on several.
C10_ExtractIgnoresSurroundings ==
  (stage # "text" /\ WellFormed(intended)) => extracted = intended

\* C10 witness: a block written on several lines, with a word before and a
\* word after it, has been extracted.
C10_Witness ==
  /\ stage = "extracted"
  /\ WellFormed(intended)
  /\ input[1] = WORD
  /\ input[Len(input)] = WORD
  /\ NL \in Range(input)
  /\ extracted = intended

\* C11: when the first completion is one well-formed invocation block, with
\* any free text around it and in either layout, and a registry is
\* supplied, execute_tool is called once with the block's name and with
\* exactly the key/value pairs of the block's arguments.
C11_CallCarriesBlock ==
  \A t \in Turns :
    \A v \in { d \in DictValues : WellFormed(d) }, l \in Layouts,
       pre \in FreeTexts, post \in FreeTexts :
      ( /\ gen[t].response_text = pre \o Block(Render(v, l)) \o post
        /\ gen[t].tool_manager
        /\ gen[t].pc \in {"second", "returned", "raised"} ) =>
          /\ Count(trace[t], ToolEvents) = 1
          /\ gen[t].tool_name = v.name
          /\ gen[t].tool_args = ArgLiteralOf(v.args).kwargs

\* C11 witness: a turn has returned whose first completion held a search
\* block with two arguments on several lines, with text before and after
\* it, and the search tool ran with those two arguments.
C11_Witness ==
  /\ gen[1].pc = "returned"
  /\ gen[1].response_text =
       << WORD >> \o
       Block(Render(PyDict(SEARCH_TOOL, "{\"query\": \"API\", \"course_name\": \"MCP\"}"),
                    "lines")) \o << NL >>
  /\ trace[1] = << "chat", "tool ran", "chat" >>
  /\ gen[1].tool_args = {<<"query", "API">>, <<"course_name", "MCP">>}

\* C20: a tool is executed only in a turn that was given a registry and
\* whose first completion holds a block that decodes; a turn whose first
\* completion holds no block or a first block that does not decode, or that
\* was given no registry, requests one completion, runs no tool and returns
\* the first completion without its blocks, trimmed.
C20_ToolOnlyWithInvocationAndRegistry ==
  \A t \in Turns :
    LET txt == gen[t].response_text
    IN  /\ Count(trace[t], ToolEvents) > 0 =>
              /\ gen[t].tool_manager
              /\ CountBlocks(txt) >= 1
              /\ ~FirstBlockInvalid(txt)
        /\ ( /\ txt # NoText
             /\ CountBlocks(txt) = 0 \/ FirstBlockInvalid(txt) \/ ~gen[t].tool_manager ) =>
              /\ gen[t].pc = "returned"
              /\ trace[t] = << "chat" >>
              /\ Len(gen[t].requests) = 1
              /\ gen[t].answer = strip(OutsideBlocks(txt))

\* C20 witness: a turn without registry has returned on a first completion
\* that holds a well-formed block after a word: no tool ran and the answer
\* is the word.
C20_Witness ==
  /\ gen[1].pc = "returned"
  /\ ~gen[1].tool_manager
  /\ gen[1].response_text = << WORD >> \o Block(Render(GoodSearch, "line"))
  /\ trace[1] = << "chat" >>
  /\ gen[1].answer = << WORD >>

\* the course-metadata index holds a course the name is a name of
CourseHasMatch(cat, name) == \E c \in cat : Names(name, c.title)

\* C12: for a course name that is a name of no course in the
\* course-metadata index, resolve_course_name returns not-found, and search
\* returns the course-not-found error with no documents and does not query
\* the content index.
C12_UnknownCourseIsNotFound ==
  (call.course_name # None /\ ~CourseHasMatch(catalog, call.course_name[1])) =>
    /\ call.op = "resolve" => call.resolved = None
    /\ call.op \in {"search", "execute"} =>
         /\ call.results.error = Some(COURSE_NOT_FOUND(call.course_name[1]))
         /\ call.results.documents = << >>
         /\ ~call.queried

\* the call was a search, directly or through the search tool
Searched == call.op \in {"search", "execute"}

\* the number of results the call asked the content index for
Requested == IF call.limit # None THEN call.limit[1] ELSE max_results

\* C13: a search that queried the content index with a resolved course and
\* a lesson number returns only chunks of that course and that lesson; with
\* one of the two, only chunks that satisfy that one; with neither, the
\* whole content index is searched, so the nearest chunks of the whole
\* index are returned, as many as were asked for.
C13_FiltersCompose ==
  (Searched /\ call.queried /\ call.raises = "" /\ call.results.error = None) =>
    /\ \A i \in DOMAIN call.results.metadata :
         /\ call.course_name # None =>
              Some(call.results.metadata[i].course_title) =
                resolve_course_name(catalog, call.course_name[1], TRUE)
         /\ call.lesson_number # None =>
              call.results.metadata[i].lesson_number = call.lesson_number
    /\ (call.course_name = None /\ call.lesson_number = None) =>
         /\ Len(call.results.documents) = Min({Requested, Cardinality(chunks)})
         /\ \A c \in chunks :
              (\E i \in DOMAIN call.results.documents : call.results.documents[i] = c.content)
              \/ \A i \in DOMAIN call.results.distances :
                   call.results.distances[i] <= ChunkDistance(call.query, c)

\* a search with course and lesson on an index that holds chunks of both
\* courses and of several lessons returned the two chunks of that lesson
C13_Witness ==
  /\ call.op = "search"
  /\ call.course_name = Some("MCP")
  /\ call.lesson_number = Some(1)
  /\ Cardinality(chunks) = 7
  /\ Len(call.results.documents) = 2

\* C14: in every result of a search, documents, metadata and distances have
\* the same length; a result with an error has all three empty; and
\* is_empty holds exactly when there are no documents, with an error too.
C14_ResultsWellFormed ==
  (Searched /\ call.raises = "") =>
    /\ Len(call.results.documents) = Len(call.results.metadata)
    /\ Len(call.results.metadata) = Len(call.results.distances)
    /\ call.results.error # None =>
         /\ call.results.documents = << >>
         /\ call.results.metadata = << >>
         /\ call.results.distances = << >>
         /\ is_empty(call.results)
    /\ is_empty(call.results) <=> call.results.documents = << >>

\* a search returned several documents
C14_Witness ==
  /\ call.op = "search"
  /\ call.results.error = None
  /\ Len(call.results.documents) >= 2
  /\ ~is_empty(call.results)

\* C15: a search never ends in an exception; when the backend failed, the
\* result has its error set and no documents, metadata or distances; a
\* search asking for zero results, by its limit or by the configured
\* maximum, returns an error or an empty result.
C15_BackendFailureIsErrorResult ==
  Searched =>
    /\ call.raises = ""
    /\ call.failed =>
         /\ call.results.error # None
         /\ call.results.documents = << >>
         /\ call.results.metadata = << >>
         /\ call.results.distances = << >>
    /\ Requested = 0 => (call.results.error # None \/ is_empty(call.results))

\* the backend failed on a search for zero results on a loaded index
C15_Witness ==
  /\ call.op = "search"
  /\ call.limit = Some(0)
  /\ chunks # {}
  /\ call.queried
  /\ call.failed
  /\ call.results.error = Some(SEARCH_ERROR)

\* C16: a search with a positive limit returns at most that many
\* documents, and a search with no limit at most the configured maximum.
C16_LimitBoundsResults ==
  (Searched /\ call.raises = "") =>
    /\ (call.limit # None /\ call.limit[1] > 0) =>
         Len(call.results.documents) <= call.limit[1]
    /\ call.limit = None => Len(call.results.documents) <= max_results

\* more chunks match than the configured maximum, and a search with no
\* limit returned exactly the maximum
C16_Witness ==
  /\ call.op = "search"
  /\ call.limit = None
  /\ call.course_name = None /\ call.lesson_number = None
  /\ Cardinality(chunks) > MAX_RESULTS
  /\ max_results = MAX_RESULTS
  /\ Len(call.results.documents) = MAX_RESULTS

\* C17: the search tool returns the error message unchanged when the result
\* has an error, the fixed no-content message when it has no error and no
\* documents, and otherwise one labeled block per document in result order;
\* an error is never reported as no relevant content.
C17_ExecuteOutcomes ==
  (call.op = "execute" /\ call.raises = "") =>
    /\ call.results.error # None =>
         /\ call.output = call.results.error[1]
         /\ call.output # NO_RELEVANT_CONTENT(call.course_name, call.lesson_number)
    /\ (call.results.error = None /\ call.results.documents = << >>) =>
         /\ call.output = NO_RELEVANT_CONTENT(call.course_name, call.lesson_number)
         /\ call.output # SEARCH_ERROR
         /\ call.course_name # None => call.output # COURSE_NOT_FOUND(call.course_name[1])
    /\ (call.results.error = None /\ call.results.documents # << >>) =>
         call.output =
           JoinWith([i \in DOMAIN call.results.documents |->
                       "[" \o call.results.metadata[i].course_title \o
                       (IF call.results.metadata[i].lesson_number = None THEN ""
                        ELSE " - Lesson " \o
                             ToString(call.results.metadata[i].lesson_number[1])) \o
                       "]\n" \o call.results.documents[i]],
                    "\n\n")

\* the search tool reported the failure of the backend
C17_Witness ==
  /\ call.op = "execute"
  /\ call.failed
  /\ call.results.error = Some(SEARCH_ERROR)
  /\ call.output = SEARCH_ERROR

\* C18: after a call of the search tool, last_sources holds one record per
\* document of that call, labeled as the document is, and nothing of an
\* earlier call.
C18_SourcesOfLastCallOnly ==
  (call.op = "execute" /\ call.raises = "") =>
    /\ Len(last_sources) = Len(call.results.documents)
    /\ \A i \in DOMAIN last_sources :
         last_sources[i].title = Label(call.results.metadata[i])

\* the course of the index that the outline call resolved
OutlinedCourse == CHOOSE c \in catalog : Some(c.title) = call.resolved

\* the lesson of the course with the k-th smallest lesson number
KthLesson(course, k) ==
  CHOOSE l \in Range(course.lessons) :
    Cardinality({ m \in Range(course.lessons) : m.lesson_number < l.lesson_number }) = k - 1

\* C19: the outline of a resolved course is its title, its link and one
\* line `Lesson <n>: <title>` per lesson, every lesson once and in ascending
\* lesson-number order, in whatever order the lessons were inserted; when
\* the title does not resolve the outline is the fixed no-course message.
C19_OutlineAscending ==
  call.op = "outline" =>
    /\ call.resolved = None => call.output = COURSE_NOT_FOUND(call.course_name[1])
    /\ call.resolved # None =>
         call.output =
           JoinWith(<< "Course: " \o OutlinedCourse.title,
                       "Link: " \o OutlinedCourse.course_link >> \o
                    [k \in 1..Cardinality(Range(OutlinedCourse.lessons)) |->
                       "Lesson " \o ToString(KthLesson(OutlinedCourse, k).lesson_number) \o
                       ": " \o KthLesson(OutlinedCourse, k).title],
                    "\n")

\* the outline of a course whose lessons were inserted as 2, 0, 1
C19_Witness ==
  /\ call.op = "outline"
  /\ call.resolved = Some(COURSE_MCP)
  /\ \E c \in catalog :
       /\ c.title = COURSE_MCP
       /\ c.lessons[1].lesson_number = 2
       /\ c.lessons[2].lesson_number = 0
       /\ c.lessons[3].lesson_number = 1
  /\ call.output = "Course: MCP: Build Rich-Context AI Apps\nLink: https://example.com/mcp\nLesson 0: Introduction\nLesson 1: Servers\nLesson 2: Clients"

\* C21: the second request carries the system message and the question of
\* the first request, unchanged and in that order, then the first
\* completion as an assistant message, then a user message that contains
\* the string the tool returned; the answer of the turn is the cleaned
\* second completion; the message list of the first request is as it was.
C21_FollowUpMessages ==
  Len(gen[1].requests) = 2 =>
    LET first == gen[1].requests[1]
        second == gen[1].requests[2]
    IN  /\ first = << [role |-> "system", content |-> << SYSTEM_PROMPT >>],
                      [role |-> "user", content |-> << QUESTION >>] >>
        /\ Len(second) = 4
        /\ second[1] = first[1]
        /\ second[2] = first[2]
        /\ second[3] = [role |-> "assistant", content |-> gen[1].response_text]
        /\ second[4].role = "user"
        /\ \E i \in DOMAIN second[4].content : second[4].content[i] = gen[1].tool_result
        /\ gen[1].messages = first
        /\ gen[1].pc = "returned" => gen[1].answer = _clean_response(gen[1].final_text)

\* a turn that ran the search tool on a block with text around it and
\* returned a second completion that had to be cleaned
C21_Witness ==
  /\ gen[1].pc = "returned"
  /\ Len(gen[1].requests) = 2
  /\ trace[1] = << "chat", "tool ran", "chat" >>
  /\ gen[1].tool_result # ""
  /\ gen[1].response_text[1] # OPEN
  /\ gen[1].answer # gen[1].final_text

\* C22: every request whose turn completed without raising is answered with
\* status 200, the answer and the sources of the turn, and the session id
\* of the request or the one created for it; no completed turn, with or
\* without retrieved chunks, is answered with an error.
C22_CompletedTurnIsAnswered ==
  \A t \in Turns :
    (req[t].phase = "done" /\ req[t].returned) =>
      /\ resp[t].status = 200
      /\ resp[t].answer = req[t].answer
      /\ resp[t].sources = req[t].sources
      /\ resp[t].session_id = req[t].session_id
      /\ resp[t].session_id \in {CLIENT_SESSION} \cup { SessionId(n) : n \in 1..NumTurns }

\* the position of the first opening delimiter that a closing one follows,
\* or 0
FirstOpen(txt) ==
  LET opens == { i \in DOMAIN txt :
                   txt[i] = OPEN /\ \E j \in DOMAIN txt : j > i /\ txt[j] = CLOSE }
  IN  IF opens = {} THEN 0 ELSE Min(opens)

\* the text between the first opening delimiter and the next closing one
FirstBody(txt) ==
  LET i == FirstOpen(txt)
      j == Min({ k \in DOMAIN txt : k > i /\ txt[k] = CLOSE })
  IN  SubSeq(txt, i + 1, j - 1)

\* C23: the invocation of a turn is decided by the first block of the first
\* completion alone: what was detected is the value that block decodes to,
\* or nothing when there is no block or it does not decode; then no tool is
\* executed, whatever later blocks hold; and a tool that is executed is the
\* one the first block names, once.
C23_FirstBlockDecides ==
  \A t \in Turns :
    gen[t].response_text # NoText =>
      LET txt == gen[t].response_text
          v == json_loads(strip(FirstBody(txt)))
      IN  /\ FirstOpen(txt) = 0 => gen[t].tool_call = PyNone
          /\ (FirstOpen(txt) # 0 /\ v.kind = "JSONDecodeError") =>
               /\ gen[t].tool_call = PyNone
               /\ Count(trace[t], ToolEvents) = 0
          /\ (FirstOpen(txt) # 0 /\ v.kind # "JSONDecodeError") =>
               /\ gen[t].tool_call = v
               /\ (WellFormed(v) /\ gen[t].tool_manager /\ Ended(t)) =>
                    /\ Count(trace[t], ToolEvents) = 1
                    /\ gen[t].tool_name = v.name

\* a turn whose first completion holds a well-formed block followed by a
\* malformed one executed the tool of the first block and returned
C23_Witness ==
  /\ gen[1].pc = "returned"
  /\ CountBlocks(gen[1].response_text) >= 2
  /\ WellFormed(json_loads(strip(FirstBody(gen[1].response_text))))
  /\ _extract_tool_call(SubSeq(gen[1].response_text,
                               re_search(gen[1].response_text).end + 1,
                               Len(gen[1].response_text))) = PyNone
  /\ Count(trace[1], ToolEvents) = 1
  /\ gen[1].tool_name = SEARCH_TOOL

\* the JSON values Python takes as false: the empty object, null, 0, false,
\* the empty string and the empty list
FalsyJson(v) ==
  \/ v.kind = "dict" /\ v.name = ABSENT /\ v.args = ABSENT
  \/ v.kind # "dict" /\ v.lit \in {"null", "0", "false", "\"\"", "[]"}

\* C24: in a turn with a registry, a first block that decodes to a falsy
\* value is no invocation: one completion, no tool, the cleaned text is the
\* answer.  A first block that decodes to an object with `arguments` and no
\* `name` is executed with the empty string as tool name, and one with
\* `name` and no `arguments` is executed with no arguments; both turns go
\* on to the second completion request.
C24_FalsyAndPartialInvocations ==
  \A t \in Turns :
    (gen[t].response_text # NoText /\ gen[t].tool_manager /\ Ended(t)
       /\ FirstOpen(gen[t].response_text) # 0) =>
      LET v == json_loads(strip(FirstBody(gen[t].response_text)))
      IN  /\ (v.kind # "JSONDecodeError" /\ FalsyJson(v)) =>
               /\ gen[t].pc = "returned"
               /\ trace[t] = << "chat" >>
               /\ gen[t].answer = _clean_response(gen[t].response_text)
          /\ (v.kind = "dict" /\ v.name = ABSENT /\ v.args # ABSENT) =>
               /\ Count(trace[t], ToolEvents) = 1
               /\ gen[t].tool_name = ""
               /\ Len(gen[t].requests) = 2
          /\ (v.kind = "dict" /\ v.name # ABSENT /\ v.args = ABSENT) =>
               /\ Count(trace[t], ToolEvents) = 1
               /\ gen[t].tool_args = {}
               /\ Len(gen[t].requests) = 2

=============================================================================
